---- MODULE Spec2Model ----
(***************************************************************************)
(* Model of src/routes/oauth/config/index.ts: the provider registry        *)
(* PROVIDERS_CONFIG, the per-provider `profile` normalisation functions    *)
(* (with the axios.get round trip of bitbucket, github and linkedin), and  *)
(* the WorkOS pre-flow middleware.                                         *)
(*                                                                         *)
(* JavaScript values are tagged records: Undef, Str(s), Num(n), Bool(b),   *)
(* Arr(seq) and objects [t |-> "object", field |-> value, ...].  A field   *)
(* that an object does not carry reads as Undef (Get), a property read on  *)
(* undefined throws a TypeError (modelled by the Throw results).           *)
(***************************************************************************)
EXTENDS Integers, Sequences, FiniteSets, TLC

VARIABLES
  env,               \* process.env, read at module load and by the middleware
  PROVIDERS_CONFIG,  \* the registry object built at module load (lines 12-303)
  att,               \* per login attempt: request, res.locals, calls made, result
  selected           \* result of the last registry lookup

vars == <<env, PROVIDERS_CONFIG, att, selected>>

----------------------------------------------------------------------------
(* Bounds of the model.                                                    *)

\* longest array a secondary endpoint returns
MaxEmails == 2

\* number of login attempts in flight at the same time
Attempts == {"a1", "a2"}

----------------------------------------------------------------------------
(* JavaScript values.                                                      *)

Undef == [t |-> "undefined"]
Str(s) == [t |-> "string", v |-> s]
Num(n) == [t |-> "number", v |-> n]
Bool(b) == [t |-> "boolean", v |-> b]
Arr(s) == [t |-> "array", v |-> s]

\* o.f / o?.f on a value that is not undefined
Get(o, f) == IF o.t = "object" /\ f \in DOMAIN o THEN o[f] ELSE Undef

\* a[i] (0-based) on an array value
At(a, i) == IF a.t = "array" /\ i + 1 <= Len(a.v) THEN a.v[i + 1] ELSE Undef

\* JavaScript truthiness: !!v
Truthy(v) ==
  CASE v.t = "undefined" -> FALSE
    [] v.t = "string" -> v.v # ""
    [] v.t = "number" -> v.v # 0
    [] v.t = "boolean" -> v.v
    [] OTHER -> TRUE

Digit(d) ==
  CASE d = 0 -> "0" [] d = 1 -> "1" [] d = 2 -> "2" [] d = 3 -> "3"
    [] d = 4 -> "4" [] d = 5 -> "5" [] d = 6 -> "6" [] d = 7 -> "7"
    [] d = 8 -> "8" [] d = 9 -> "9"

RECURSIVE NatToString(_)
NatToString(n) == IF n < 10 THEN Digit(n) ELSE NatToString(n \div 10) \o Digit(n % 10)

\* String(v) and `${v}`: the text JavaScript makes of a value
JsString(v) ==
  CASE v.t = "undefined" -> "undefined"
    [] v.t = "string" -> v.v
    [] v.t = "number" -> NatToString(v.v)
    [] v.t = "boolean" -> IF v.v THEN "true" ELSE "false"
    [] v.t = "array" -> "[array]"
    [] OTHER -> "[object Object]"

\* s.slice(0, 2) of a string
Slice2(s) == IF Len(s) <= 2 THEN s ELSE SubSeq(s, 1, 2)

\* a destructuring default: `x = d` takes d only when x is undefined
Default(v, d) == IF v = Undef THEN d ELSE v

----------------------------------------------------------------------------
(* The registry (lines 12-303).                                            *)

Providers ==
  {"azuread", "bitbucket", "discord", "facebook", "github", "gitlab",
   "google", "linkedin", "spotify", "strava", "twitch", "workos"}

ClientIdVar(p) ==
  CASE p = "azuread" -> "AUTH_PROVIDER_AZUREAD_CLIENT_ID"
    [] p = "bitbucket" -> "AUTH_PROVIDER_BITBUCKET_CLIENT_ID"
    [] p = "discord" -> "AUTH_PROVIDER_DISCORD_CLIENT_ID"
    [] p = "facebook" -> "AUTH_PROVIDER_FACEBOOK_CLIENT_ID"
    [] p = "github" -> "AUTH_PROVIDER_GITHUB_CLIENT_ID"
    [] p = "gitlab" -> "AUTH_PROVIDER_GITLAB_CLIENT_ID"
    [] p = "google" -> "AUTH_PROVIDER_GOOGLE_CLIENT_ID"
    [] p = "linkedin" -> "AUTH_PROVIDER_LINKEDIN_CLIENT_ID"
    [] p = "spotify" -> "AUTH_PROVIDER_SPOTIFY_CLIENT_ID"
    [] p = "strava" -> "AUTH_PROVIDER_STRAVA_CLIENT_ID"
    [] p = "twitch" -> "AUTH_PROVIDER_TWITCH_CLIENT_ID"
    [] p = "workos" -> "AUTH_PROVIDER_WORKOS_CLIENT_ID"

ClientSecretVar(p) ==
  CASE p = "azuread" -> "AUTH_PROVIDER_AZUREAD_CLIENT_SECRET"
    [] p = "bitbucket" -> "AUTH_PROVIDER_BITBUCKET_CLIENT_SECRET"
    [] p = "discord" -> "AUTH_PROVIDER_DISCORD_CLIENT_SECRET"
    [] p = "facebook" -> "AUTH_PROVIDER_FACEBOOK_CLIENT_SECRET"
    [] p = "github" -> "AUTH_PROVIDER_GITHUB_CLIENT_SECRET"
    [] p = "gitlab" -> "AUTH_PROVIDER_GITLAB_CLIENT_SECRET"
    [] p = "google" -> "AUTH_PROVIDER_GOOGLE_CLIENT_SECRET"
    [] p = "linkedin" -> "AUTH_PROVIDER_LINKEDIN_CLIENT_SECRET"
    [] p = "spotify" -> "AUTH_PROVIDER_SPOTIFY_CLIENT_SECRET"
    [] p = "strava" -> "AUTH_PROVIDER_STRAVA_CLIENT_SECRET"
    [] p = "twitch" -> "AUTH_PROVIDER_TWITCH_CLIENT_SECRET"
    [] p = "workos" -> "AUTH_PROVIDER_WORKOS_CLIENT_SECRET"

\* the names the middleware's parameter defaults read (lines 280-282)
DefaultOrganizationVar == "AUTH_PROVIDER_WORKOS_DEFAULT_ORGANIZATION"
DefaultConnectionVar == "AUTH_PROVIDER_WORKOS_DEFAULT_CONNECTION"
DefaultDomainVar == "AUTH_PROVIDER_WORKOKS_DEFAULT_DOMAIN"

\* the name a deployment sets for the default domain, uniform with the two above
UniformDefaultDomainVar == "AUTH_PROVIDER_WORKOS_DEFAULT_DOMAIN"

WorkosDefaultVars ==
  {DefaultOrganizationVar, DefaultConnectionVar, DefaultDomainVar,
   UniformDefaultDomainVar}

EnvVars ==
  {ClientIdVar(p) : p \in Providers} \cup {ClientSecretVar(p) : p \in Providers}
    \cup WorkosDefaultVars

\* custom_params of a provider's static grant object (google: lines 144-148)
StaticCustomParams(p) ==
  IF p = "google" THEN [t |-> "object", access_type |-> Str("offline")] ELSE Undef

\* the `grant` object of one entry: the fields read from the environment
GrantOf(p, e) ==
  [client_id |-> e[ClientIdVar(p)],
   client_secret |-> e[ClientSecretVar(p)],
   custom_params |-> StaticCustomParams(p)]

\* the object literal evaluated at module load: one entry per provider, always
BuildProvidersConfig(e) == [p \in Providers |-> [grant |-> GrantOf(p, e)]]

\* providers whose entry has a middleware (workos only, line 277)
HasMiddleware(p) == p = "workos"

\* providers whose profile function awaits axios.get (lines 54, 108, 179)
IsAsync(p) == p \in {"bitbucket", "github", "linkedin"}

----------------------------------------------------------------------------
(* Results of a profile function, and the NormalisedProfile it returns.    *)
(* A key the returned object literal does not carry is Undef here.         *)

NoResult == [kind |-> "none"]
Ok(p) == [kind |-> "profile", profile |-> p]
Throw(e) == [kind |-> "throw", error |-> e]

NormalisedProfile(id, displayName, email, emailVerified, avatarUrl, locale) ==
  [id |-> id, displayName |-> displayName, email |-> email,
   emailVerified |-> emailVerified, avatarUrl |-> avatarUrl, locale |-> locale]

\* o?.f
OptGet(o, f) == IF o = Undef THEN Undef ELSE Get(o, f)

\* a?.[i]
OptAt(a, i) == IF a = Undef THEN Undef ELSE At(a, i)

\* array.find(pred) for the predicate "element.f is truthy"
RECURSIVE FindTruthy(_, _, _)
FindTruthy(s, f, i) ==
  IF i > Len(s) THEN Undef
  ELSE IF Truthy(Get(s[i], f)) THEN s[i]
  ELSE FindTruthy(s, f, i + 1)

\* array.find(pred) for the predicate "element.f === value"
RECURSIVE FindEqual(_, _, _, _)
FindEqual(s, f, value, i) ==
  IF i > Len(s) THEN Undef
  ELSE IF Get(s[i], f) = value THEN s[i]
  ELSE FindEqual(s, f, value, i + 1)

----------------------------------------------------------------------------
(* axios.get: the request a profile function issues and the reply it       *)
(* awaits.  The promise rejects on a network error and on a status outside *)
(* 2xx (axios' default validateStatus); otherwise it resolves to {data}.   *)

BitbucketEmailsUrl == "https://api.bitbucket.org/2.0/user/emails"
GithubEmailsUrl == "https://api.github.com/user/emails"
LinkedinEmailUrl ==
  "https://api.linkedin.com/v2/emailAddress?q=members&projection=(elements*(handle~))"

EmailEndpoint(p) ==
  CASE p = "bitbucket" -> BitbucketEmailsUrl
    [] p = "github" -> GithubEmailsUrl
    [] p = "linkedin" -> LinkedinEmailUrl

\* axios.get(url, { headers: { Authorization: `Bearer ${access_token}` } })
AxiosGet(p, response) ==
  [url |-> EmailEndpoint(p),
   Authorization |-> "Bearer " \o JsString(Get(response, "access_token"))]

NoReply == [kind |-> "none"]
NetworkError == [kind |-> "network"]
Http(status, data) == [kind |-> "http", status |-> status, data |-> data]

AxiosRejects(reply) ==
  reply.kind = "network" \/ ~(reply.status >= 200 /\ reply.status < 300)

----------------------------------------------------------------------------
(* The profile functions, one per provider.                                *)

\* lines 33-40
AzureadProfile(response) ==
  LET payload == OptGet(OptGet(Get(response, "jwt"), "id_token"), "payload")
  IN IF payload = Undef THEN Throw("TypeError")
     ELSE Ok(NormalisedProfile(Get(payload, "oid"), Get(payload, "name"),
                               Get(payload, "email"), Undef, Undef, Undef))

\* lines 49-66
BitbucketProfile(response, reply) ==
  LET profile == Get(response, "profile")
      values == Get(reply.data, "values")
      first == At(values, 0)
      links == Get(profile, "links")
      avatar == Get(links, "avatar")
  IN IF AxiosRejects(reply) THEN Throw("AxiosError")
     ELSE IF reply.data = Undef \/ values.t # "array" \/ first = Undef
       THEN Throw("TypeError")
     ELSE IF profile = Undef \/ links = Undef \/ avatar = Undef
       THEN Throw("TypeError")
     ELSE Ok(NormalisedProfile(Get(profile, "uuid"), Get(profile, "display_name"),
                               Get(first, "email"), Get(first, "is_confirmed"),
                               Get(avatar, "href"), Undef))

\* lines 75-83
DiscordProfile(response) ==
  LET profile == Get(response, "profile")
      locale == Get(profile, "locale")
  IN IF profile = Undef THEN Throw("TypeError")
     ELSE Ok(NormalisedProfile(
            Get(profile, "id"),
            Str(JsString(Get(profile, "username")) \o "#"
                  \o JsString(Get(profile, "discriminator"))),
            Get(profile, "email"),
            Bool(Truthy(Get(profile, "verified"))),
            Str("https://cdn.discordapp.com/avatars/" \o JsString(Get(profile, "id"))
                  \o "/" \o JsString(Get(profile, "avatar")) \o ".png"),
            IF locale = Undef THEN Undef ELSE Str(Slice2(locale.v))))

\* lines 92-97
FacebookProfile(response) ==
  LET profile == Get(response, "profile")
  IN IF profile = Undef THEN Throw("TypeError")
     ELSE Ok(NormalisedProfile(
            Get(profile, "id"), Get(profile, "name"), Get(profile, "email"), Undef,
            OptGet(OptGet(Get(profile, "picture"), "data"), "url"), Undef))

\* GithubChosenEmail without the search for the primary record
GithubChosenFirst(emails) == At(emails, 0)

\* lines 113-114: emails.find((email) => email.primary) || emails[0]
GithubChosenEmail(emails) ==
  LET found == FindTruthy(emails.v, "primary", 1)
  IN IF Truthy(found) THEN found ELSE At(emails, 0)

\* GithubProfile with the verified flag read from emails[0]
GithubProfileVerifiedOfFirst(response, reply) ==
  LET profile == Get(response, "profile")
      emails == reply.data
      chosen == GithubChosenEmail(emails)
  IN IF AxiosRejects(reply) THEN Throw("AxiosError")
     ELSE IF emails.t # "array" THEN Throw("TypeError")
     ELSE IF chosen = Undef THEN Throw("TypeError")
     ELSE IF profile = Undef THEN Throw("TypeError")
     ELSE Ok(NormalisedProfile(
            Str(JsString(Get(profile, "id"))), Get(profile, "name"),
            Get(chosen, "email"), Get(At(emails, 0), "verified"),
            Get(profile, "avatar_url"), Undef))

\* lines 106-122
GithubProfile(response, reply) ==
  LET profile == Get(response, "profile")
      emails == reply.data
      chosen == GithubChosenEmail(emails)
  IN IF AxiosRejects(reply) THEN Throw("AxiosError")
     ELSE IF emails.t # "array" THEN Throw("TypeError")
     ELSE IF chosen = Undef THEN Throw("TypeError")
     ELSE IF profile = Undef THEN Throw("TypeError")
     ELSE Ok(NormalisedProfile(
            Str(JsString(Get(profile, "id"))), Get(profile, "name"),
            Get(chosen, "email"), Get(chosen, "verified"),
            Get(profile, "avatar_url"), Undef))

\* lines 131-136
GitlabProfile(response) ==
  LET profile == Get(response, "profile")
  IN IF profile = Undef THEN Throw("TypeError")
     ELSE Ok(NormalisedProfile(
            Str(JsString(Get(profile, "id"))), Get(profile, "name"),
            Get(profile, "email"), Undef, Get(profile, "avatar_url"), Undef))

\* lines 150-159
GoogleProfile(response) ==
  LET profile == Get(response, "profile")
  IN IF profile = Undef THEN Throw("TypeError")
     ELSE Ok(NormalisedProfile(
            Get(profile, "sub"), Get(profile, "name"), Get(profile, "email"),
            Get(profile, "email_verified"), Get(profile, "picture"),
            Get(profile, "locale")))

\* lines 170-209; the keys 'handle~' and 'displayImage~' are written handle and
\* displayImage
LinkedinProfile(response, reply) ==
  LET profile == Get(response, "profile")
      elements == Get(reply.data, "elements")
      first == At(elements, 0)
      handle == Get(first, "handle")
      images == OptGet(OptGet(Get(profile, "profilePicture"), "displayImage"), "elements")
      public == IF images = Undef THEN Undef
                ELSE FindEqual(images.v, "authorizationMethod", Str("PUBLIC"), 1)
  IN IF AxiosRejects(reply) THEN Throw("AxiosError")
     ELSE IF reply.data = Undef \/ elements.t # "array" \/ first = Undef \/ handle = Undef
       THEN Throw("TypeError")
     ELSE IF profile = Undef THEN Throw("TypeError")
     ELSE Ok(NormalisedProfile(
            Get(profile, "id"),
            Str(JsString(Get(profile, "localizedFirstName")) \o " "
                  \o JsString(Get(profile, "localizedLastName"))),
            Get(handle, "emailAddress"), Undef,
            OptGet(OptAt(OptGet(public, "identifiers"), 0), "identifier"),
            OptGet(OptGet(Get(profile, "firstName"), "preferredLocale"), "language")))

\* lines 218-223
SpotifyProfile(response) ==
  LET profile == Get(response, "profile")
  IN IF profile = Undef THEN Throw("TypeError")
     ELSE Ok(NormalisedProfile(
            Get(profile, "id"), Get(profile, "display_name"), Get(profile, "email"),
            Undef, OptGet(OptAt(Get(profile, "images"), 0), "url"), Undef))

\* lines 233-237
StravaProfile(response) ==
  LET profile == Get(response, "profile")
  IN IF profile = Undef THEN Throw("TypeError")
     ELSE Ok(NormalisedProfile(
            Str(JsString(Get(profile, "id"))),
            Str(JsString(Get(profile, "firstname")) \o " "
                  \o JsString(Get(profile, "lastname"))),
            Undef, Undef, Get(profile, "profile"), Undef))

\* lines 246-255
TwitchProfile(response) ==
  LET outer == Get(response, "profile")
      data == OptGet(outer, "data")
      profile == At(data, 0)
  IN IF outer = Undef \/ data.t # "array" \/ profile = Undef THEN Throw("TypeError")
     ELSE Ok(NormalisedProfile(
            Get(profile, "id"), Get(profile, "display_name"), Get(profile, "email"),
            Undef, Get(profile, "profile_image_url"), Undef))

\* lines 267-276; the three claim URLs are written name, picture and locale
WorkosProfile(response) ==
  LET profile == Get(response, "profile")
      raw_attributes == OptGet(profile, "raw_attributes")
  IN IF profile = Undef \/ raw_attributes = Undef THEN Throw("TypeError")
     ELSE Ok(NormalisedProfile(
            Get(profile, "id"), Get(raw_attributes, "name"), Get(profile, "email"),
            Undef, Get(raw_attributes, "picture"), Get(raw_attributes, "locale")))

\* PROVIDERS_CONFIG[p].profile(response) of a provider that does not await
SyncProfile(p, response) ==
  CASE p = "azuread" -> AzureadProfile(response)
    [] p = "discord" -> DiscordProfile(response)
    [] p = "facebook" -> FacebookProfile(response)
    [] p = "gitlab" -> GitlabProfile(response)
    [] p = "google" -> GoogleProfile(response)
    [] p = "spotify" -> SpotifyProfile(response)
    [] p = "strava" -> StravaProfile(response)
    [] p = "twitch" -> TwitchProfile(response)
    [] p = "workos" -> WorkosProfile(response)

\* the rest of PROVIDERS_CONFIG[p].profile(response) once axios.get settles
AsyncProfile(p, response, reply) ==
  CASE p = "bitbucket" -> BitbucketProfile(response, reply)
    [] p = "github" -> GithubProfile(response, reply)
    [] p = "linkedin" -> LinkedinProfile(response, reply)

----------------------------------------------------------------------------
(* Inputs: what a request, the OAuth library and a secondary endpoint can  *)
(* hand to the code.                                                       *)

Obj0 == [t |-> "object"]

SeqsUpTo(S, n) == UNION {[1..k -> S] : k \in 0..n}

\* req.query.<selector>: missing, empty or given
QueryValues == {Undef, Str(""), Str("org_1")}

NoQuery == [organization |-> Undef, connection |-> Undef, domain |-> Undef]

AllQueries == [organization : QueryValues, connection : QueryValues, domain : QueryValues]

\* queries that miss or give each selector
GivenQueries ==
  [organization : {Undef, Str("org_1")}, connection : {Undef, Str("conn_1")},
   domain : {Undef}]

\* res.locals.redirectTo, set before the middleware runs
RedirectTargets == {Str("https://app.example/a"), Str("https://app.example/b")}

AccessTokens == {Str("tok1")}

Response(profile, access_token, jwt) ==
  [t |-> "object", profile |-> profile, access_token |-> access_token, jwt |-> jwt]

IdTokenPayloads ==
  {[t |-> "object", name |-> Str("Ann")],
   [t |-> "object", oid |-> Str("oid1"), name |-> Str("Ann")],
   [t |-> "object", oid |-> Str("oid1"), name |-> Str("Ann"), email |-> Str("p@x")]}

Jwts ==
  {Undef, Obj0}
    \cup {[t |-> "object", id_token |-> [t |-> "object", payload |-> pl]] :
            pl \in IdTokenPayloads}

\* with(o, f, v): o when v is undefined, else o with o.f = v
WithField(o, f, v) ==
  IF v = Undef THEN o ELSE [k \in DOMAIN o \cup {f} |-> IF k = f THEN v ELSE o[k]]

PrimaryEmails == {Undef, Str("p@x")}
VerifiedFlags == {Undef, Bool(TRUE), Bool(FALSE)}

\* the primary payloads of each provider: with and without the identifier field,
\* with and without an email, and no payload at all
Profiles(p) ==
  CASE p = "azuread" -> {Undef}
    [] p = "bitbucket" ->
         {[t |-> "object", uuid |-> Str("{u1}"), display_name |-> Str("Ann")]}
           \cup {WithField([t |-> "object", display_name |-> Str("Ann"),
                            links |-> [t |-> "object",
                                       avatar |-> [t |-> "object", href |-> Str("h")]]],
                           "uuid", id) : id \in {Undef, Str("{u1}")}}
    [] p = "discord" ->
         {Undef}
           \cup {WithField(WithField(WithField(
                   [t |-> "object", username |-> Str("ann"),
                    discriminator |-> Str("0042"), locale |-> Str("en-US"),
                    avatar |-> Str("av")],
                   "id", id), "email", e), "verified", f) :
                 id \in {Undef, Str("80351110224678912")}, e \in PrimaryEmails,
                 f \in VerifiedFlags}
    [] p = "facebook" ->
         {Undef}
           \cup {WithField(WithField(WithField(
                   [t |-> "object", name |-> Str("Ann")], "id", id), "email", e),
                   "picture", pic) :
                 id \in {Undef, Str("fb1")}, e \in PrimaryEmails,
                 pic \in {Undef,
                          [t |-> "object",
                           data |-> [t |-> "object", url |-> Str("pic")]]}}
    [] p = "github" ->
         {[t |-> "object", name |-> Str("Ann"), avatar_url |-> Str("av")]}
           \cup {WithField(
                   [t |-> "object", id |-> Num(583231), name |-> Str("Ann"),
                    avatar_url |-> Str("av")], "email", e) : e \in PrimaryEmails}
    [] p = "gitlab" ->
         {Undef}
           \cup {WithField(WithField(
                   [t |-> "object", name |-> Str("Ann"), avatar_url |-> Str("av")],
                   "id", id), "email", e) :
                 id \in {Undef, Num(42)}, e \in PrimaryEmails}
    [] p = "google" ->
         {Undef}
           \cup {WithField(WithField(WithField(
                   [t |-> "object", name |-> Str("Ann"), picture |-> Str("pic"),
                    locale |-> Str("en")],
                   "sub", id), "email", e), "email_verified", f) :
                 id \in {Undef, Str("1100")}, e \in PrimaryEmails, f \in VerifiedFlags}
    [] p = "linkedin" ->
         {[t |-> "object", id |-> Str("li1"), localizedFirstName |-> Str("Ann"),
           localizedLastName |-> Str("Lee")]}
           \cup {WithField(
                   [t |-> "object", localizedFirstName |-> Str("Ann"),
                    localizedLastName |-> Str("Lee"),
                    firstName |-> [t |-> "object",
                                   preferredLocale |-> [t |-> "object",
                                                        language |-> Str("en")]],
                    profilePicture |->
                      [t |-> "object",
                       displayImage |->
                         [t |-> "object",
                          elements |->
                            Arr(<<[t |-> "object", authorizationMethod |-> Str("NONE")],
                                  [t |-> "object", authorizationMethod |-> Str("PUBLIC"),
                                   identifiers |->
                                     Arr(<<[t |-> "object",
                                            identifier |-> Str("pic")]>>)]>>)]]],
                   "id", id) : id \in {Undef, Str("li1")}}
    [] p = "spotify" ->
         {Undef}
           \cup {WithField(WithField(WithField(
                   [t |-> "object", display_name |-> Str("Ann")], "id", id), "email", e),
                   "images", im) :
                 id \in {Undef, Str("sp1")}, e \in PrimaryEmails,
                 im \in {Undef, Arr(<<>>),
                         Arr(<<[t |-> "object", url |-> Str("pic")]>>)}}
    [] p = "strava" ->
         {Undef}
           \cup {WithField(
                   [t |-> "object", firstname |-> Str("Ann"), lastname |-> Str("Lee"),
                    profile |-> Str("pic")], "id", id) : id \in {Undef, Num(90)}}
    [] p = "twitch" ->
         {Undef, Obj0, [t |-> "object", data |-> Arr(<<>>)]}
           \cup {[t |-> "object",
                  data |-> Arr(<<WithField(WithField(
                                   [t |-> "object", display_name |-> Str("Ann"),
                                    profile_image_url |-> Str("pic")],
                                   "id", id), "email", e)>>)] :
                 id \in {Undef, Str("tw1")}, e \in PrimaryEmails}
    [] p = "workos" ->
         {Undef, [t |-> "object", id |-> Str("prof_1"), email |-> Str("p@x")]}
           \cup {WithField(WithField(
                   [t |-> "object",
                    raw_attributes |-> [t |-> "object", name |-> Str("Ann"),
                                        picture |-> Str("pic"), locale |-> Str("en")]],
                   "id", id), "email", e) :
                 id \in {Undef, Str("prof_1")}, e \in PrimaryEmails}

\* the GrantResponse objects handed to PROVIDERS_CONFIG[p].profile
RawResponses(p) ==
  {Response(pr, tok, jwt) :
     pr \in Profiles(p), tok \in AccessTokens,
     jwt \in IF p = "azuread" THEN Jwts ELSE {Undef}}

GithubEmailRecords ==
  {[t |-> "object", email |-> Str("a@x"), primary |-> Bool(FALSE), verified |-> Bool(TRUE)],
   [t |-> "object", email |-> Str("b@x"), primary |-> Bool(TRUE), verified |-> Bool(FALSE)],
   [t |-> "object", email |-> Str("c@x"), primary |-> Bool(FALSE), verified |-> Bool(FALSE)],
   [t |-> "object", primary |-> Bool(TRUE), verified |-> Bool(TRUE)]}

BitbucketEmailRecords ==
  {[t |-> "object", email |-> Str("a@x"), is_confirmed |-> Bool(TRUE)],
   [t |-> "object", email |-> Str("b@x"), is_confirmed |-> Bool(FALSE)],
   [t |-> "object", is_confirmed |-> Bool(TRUE)]}

LinkedinElements ==
  {[t |-> "object", handle |-> [t |-> "object", emailAddress |-> Str("a@x")]],
   [t |-> "object", handle |-> Obj0],
   Obj0}

\* the bodies a secondary endpoint can answer with
Bodies(p) ==
  CASE p = "github" ->
         {Undef, [t |-> "object", message |-> Str("Bad credentials")]}
           \cup {Arr(s) : s \in SeqsUpTo(GithubEmailRecords, MaxEmails)}
    [] p = "bitbucket" ->
         {Undef, Obj0}
           \cup {[t |-> "object", values |-> Arr(s)] :
                   s \in SeqsUpTo(BitbucketEmailRecords, MaxEmails)}
    [] p = "linkedin" ->
         {Undef, Obj0}
           \cup {[t |-> "object", elements |-> Arr(s)] :
                   s \in SeqsUpTo(LinkedinElements, MaxEmails)}

\* how an axios.get can settle
Replies(p) ==
  {NetworkError, Http(500, Undef)} \cup {Http(200, d) : d \in Bodies(p)}

----------------------------------------------------------------------------
(* The WorkOS middleware (lines 277-301).                                  *)

\* lines 278-284: the destructured query with its parameter defaults
ResolveSelectors(query, e) ==
  [organization |-> Default(query.organization, e[DefaultOrganizationVar]),
   connection |-> Default(query.connection, e[DefaultConnectionVar]),
   domain |-> Default(query.domain, e[DefaultDomainVar])]

\* NoSelector with && for ||
NoSelectorAll(sel) ==
  ~(Truthy(sel.organization) /\ Truthy(sel.connection) /\ Truthy(sel.domain))

\* line 288: !(organization || connection || domain)
NoSelector(sel) ==
  ~(Truthy(sel.organization) \/ Truthy(sel.connection) \/ Truthy(sel.domain))

InvalidRequestMessage ==
  "You need to give either an organization, a domain or a connection to be able to authenticate with WorkOS"

\* lines 289-293: the arguments of sendError(res, ...)
SendErrorCall(locals) ==
  [code |-> "invalid-request", customMessage |-> InvalidRequestMessage,
   redirectTo |-> locals.redirectTo]

\* lines 295-299: the object assigned to res.locals.grant
DynamicGrant(sel) ==
  [t |-> "object",
   dynamic |-> [t |-> "object",
                custom_params |-> [t |-> "object", organization |-> sel.organization,
                                   connection |-> sel.connection,
                                   domain |-> sel.domain]]]

----------------------------------------------------------------------------
(* State.                                                                  *)

NoSelection == [kind |-> "none"]

IdleAttempt ==
  [pc |-> "idle", provider |-> "", query |-> NoQuery,
   locals |-> [redirectTo |-> Undef, grant |-> Undef],
   sel |-> NoQuery, sent |-> <<>>, nextCalls |-> 0,
   response |-> Undef, requests |-> <<>>, reply |-> NoReply, result |-> NoResult]

\* an environment with every credential set and no WorkOS default
FullEnv ==
  [n \in EnvVars |-> IF n \in WorkosDefaultVars THEN Undef ELSE Str(n)]

\* environments in which the credentials of one provider are unset, empty or set
CredentialEnvs ==
  {[FullEnv EXCEPT ![ClientIdVar(p)] = i, ![ClientSecretVar(p)] = s] :
     p \in Providers, i \in {Undef, Str(""), Str("id")},
     s \in {Undef, Str(""), Str("secret")}}

\* environments in which each WorkOS default is unset or set
WorkosEnvs ==
  {[n \in EnvVars |-> IF n \in WorkosDefaultVars THEN d[n] ELSE FullEnv[n]] :
     d \in [WorkosDefaultVars -> {Undef, Str("dflt")}]}

InitWith(Envs) ==
  /\ env \in Envs
  /\ PROVIDERS_CONFIG = BuildProvidersConfig(env)
  /\ att = [a \in Attempts |-> IdleAttempt]
  /\ selected = NoSelection

Init == InitWith({FullEnv})
InitWorkos == InitWith(WorkosEnvs)
InitRegistry == InitWith(CredentialEnvs)

----------------------------------------------------------------------------
(* Actions.                                                                *)

\* a login request for provider p arrives; the route runs the entry's middleware
\* when it has one, else hands over to the OAuth library
Start(a, Ps, Qs) ==
  /\ att[a].pc = "idle"
  /\ \E p \in Ps :
       \E q \in (IF HasMiddleware(p) THEN Qs ELSE {NoQuery}) :
         \E r \in (IF HasMiddleware(p) THEN RedirectTargets ELSE {Undef}) :
           att' = [att EXCEPT ![a] =
                     [IdleAttempt EXCEPT
                        !.pc = IF HasMiddleware(p) THEN "middleware" ELSE "grant",
                        !.provider = p, !.query = q, !.locals.redirectTo = r]]
  /\ UNCHANGED <<env, PROVIDERS_CONFIG, selected>>

\* Middleware without the `return` in front of sendError
MiddlewareNoReturn(a) ==
  /\ att[a].pc = "middleware"
  /\ LET sel == ResolveSelectors(att[a].query, env)
     IN att' = [att EXCEPT ![a].sel = sel,
                           ![a].sent = IF NoSelector(sel)
                                       THEN Append(@, SendErrorCall(att[a].locals))
                                       ELSE @,
                           ![a].locals.grant = DynamicGrant(sel),
                           ![a].nextCalls = @ + 1,
                           ![a].pc = "grant"]
  /\ UNCHANGED <<env, PROVIDERS_CONFIG, selected>>

\* Middleware that also stores the request's parameters in the registry entry
MiddlewareSharedGrant(a) ==
  /\ att[a].pc = "middleware"
  /\ LET sel == ResolveSelectors(att[a].query, env)
     IN IF NoSelector(sel)
        THEN /\ att' = [att EXCEPT ![a].sel = sel,
                                   ![a].sent = Append(@, SendErrorCall(att[a].locals)),
                                   ![a].pc = "done"]
             /\ UNCHANGED PROVIDERS_CONFIG
        ELSE /\ att' = [att EXCEPT ![a].sel = sel,
                                   ![a].locals.grant = DynamicGrant(sel),
                                   ![a].nextCalls = @ + 1,
                                   ![a].pc = "grant"]
             /\ PROVIDERS_CONFIG' =
                  [PROVIDERS_CONFIG EXCEPT
                     !["workos"].grant.custom_params =
                       DynamicGrant(sel).dynamic.custom_params]
  /\ UNCHANGED <<env, selected>>

\* PROVIDERS_CONFIG.workos.middleware(req, res, next), lines 277-301
Middleware(a) ==
  /\ att[a].pc = "middleware"
  /\ LET sel == ResolveSelectors(att[a].query, env)
     IN IF NoSelector(sel)
        THEN att' = [att EXCEPT ![a].sel = sel,
                                ![a].sent = Append(@, SendErrorCall(att[a].locals)),
                                ![a].pc = "done"]
        ELSE att' = [att EXCEPT ![a].sel = sel,
                                ![a].locals.grant = DynamicGrant(sel),
                                ![a].nextCalls = @ + 1,
                                ![a].pc = "grant"]
  /\ UNCHANGED <<env, PROVIDERS_CONFIG, selected>>

\* the requests PROVIDERS_CONFIG[p].profile(response) issues before it awaits
SecondaryRequests(p, response) ==
  IF IsAsync(p) THEN <<AxiosGet(p, response)>> ELSE <<>>

\* the OAuth library finished the exchange and calls
\* PROVIDERS_CONFIG[p].profile(response): it returns, throws, or awaits axios.get
CallProfile(a) ==
  /\ att[a].pc = "grant"
  /\ \E response \in RawResponses(att[a].provider) :
       LET p == att[a].provider
           issued == SecondaryRequests(p, response)
       IN IF issued # <<>>
          THEN att' = [att EXCEPT ![a].response = response,
                                  ![a].requests = @ \o issued,
                                  ![a].pc = "await"]
          ELSE att' = [att EXCEPT ![a].response = response,
                                  ![a].result = SyncProfile(p, response),
                                  ![a].pc = "done"]
  /\ UNCHANGED <<env, PROVIDERS_CONFIG, selected>>

\* AxiosSettles that issues the request once more after a rejection
AxiosSettlesRetry(a) ==
  /\ att[a].pc = "await"
  /\ \E reply \in Replies(att[a].provider) :
       IF AxiosRejects(reply) /\ Len(att[a].requests) < 2
       THEN att' = [att EXCEPT ![a].requests =
                                 Append(@, AxiosGet(att[a].provider, att[a].response))]
       ELSE att' = [att EXCEPT ![a].reply = reply,
                               ![a].result =
                                 AsyncProfile(att[a].provider, att[a].response, reply),
                               ![a].pc = "done"]
  /\ UNCHANGED <<env, PROVIDERS_CONFIG, selected>>

\* the awaited axios.get settles and the profile function runs to its end
AxiosSettles(a) ==
  /\ att[a].pc = "await"
  /\ \E reply \in Replies(att[a].provider) :
       att' = [att EXCEPT ![a].reply = reply,
                          ![a].result = AsyncProfile(att[a].provider, att[a].response, reply),
                          ![a].pc = "done"]
  /\ UNCHANGED <<env, PROVIDERS_CONFIG, selected>>

\* the attempt is over; its request and response objects are dropped
Finish(a) ==
  /\ att[a].pc = "done"
  /\ att' = [att EXCEPT ![a] = IdleAttempt]
  /\ UNCHANGED <<env, PROVIDERS_CONFIG, selected>>

\* lookup(providerId): a read of the registry
Lookup(id) ==
  /\ selected' = IF id \in DOMAIN PROVIDERS_CONFIG
                 THEN [kind |-> "descriptor", provider |-> id,
                       grant |-> PROVIDERS_CONFIG[id].grant]
                 ELSE [kind |-> "NotFoundError", provider |-> id]
  /\ UNCHANGED <<env, PROVIDERS_CONFIG, att>>

Next ==
  \E a \in Attempts :
    \/ Start(a, Providers, GivenQueries)
    \/ Middleware(a)
    \/ CallProfile(a)
    \/ AxiosSettles(a)
    \/ Finish(a)

NextWorkos ==
  \E a \in Attempts :
    \/ Start(a, {"workos"}, AllQueries)
    \/ Middleware(a)
    \/ Finish(a)

NextRegistry == \E id \in Providers \cup {"unknown"} : Lookup(id)

Spec == Init /\ [][Next]_vars
SpecWorkos == InitWorkos /\ [][NextWorkos]_vars
SpecRegistry == InitRegistry /\ [][NextRegistry]_vars

----------------------------------------------------------------------------
(* Properties.                                                             *)

Selectors == {"organization", "connection", "domain"}

\* a selector that is absent or empty
Empty(v) == v = Undef \/ v = Str("")

AllEmpty(sel) == \A f \in Selectors : Empty(sel[f])

\* the middleware of attempt a has run
MiddlewareRan(a) ==
  att[a].provider = "workos" /\ att[a].pc \in {"grant", "await", "done"}

\* the profile function of attempt a has run to its end
Settled(a) == att[a].pc = "done" /\ att[a].response # Undef

Returned(a) == Settled(a) /\ att[a].result.kind = "profile"

\* the field of the primary payload that carries the provider's identifier
IdentifierOf(p, response) ==
  CASE p = "azuread" ->
         OptGet(OptGet(OptGet(Get(response, "jwt"), "id_token"), "payload"), "oid")
    [] p = "bitbucket" -> OptGet(Get(response, "profile"), "uuid")
    [] p = "google" -> OptGet(Get(response, "profile"), "sub")
    [] p = "twitch" ->
         OptGet(OptAt(OptGet(Get(response, "profile"), "data"), 0), "id")
    [] OTHER -> OptGet(Get(response, "profile"), "id")

\* the email the primary payload carries, if any
PrimaryEmailOf(p, response) ==
  CASE p = "azuread" ->
         OptGet(OptGet(OptGet(Get(response, "jwt"), "id_token"), "payload"), "email")
    [] p = "twitch" ->
         OptGet(OptAt(OptGet(Get(response, "profile"), "data"), 0), "email")
    [] OTHER -> OptGet(Get(response, "profile"), "email")

\* C1: when the three resolved selectors are all absent or empty, sendError is
\* called once with 'invalid-request', the user-facing message and
\* res.locals.redirectTo; next() is not called, res.locals.grant stays unset and
\* no request is issued.
C1_AllEmptyIsValidationError ==
  \A a \in Attempts :
    (MiddlewareRan(a) /\ AllEmpty(att[a].sel)) =>
      /\ att[a].sent =
           <<[code |-> "invalid-request", customMessage |-> InvalidRequestMessage,
              redirectTo |-> att[a].locals.redirectTo]>>
      /\ att[a].locals.redirectTo \in RedirectTargets
      /\ att[a].nextCalls = 0
      /\ att[a].locals.grant = Undef
      /\ att[a].requests = <<>>
      /\ att[a].pc = "done"

C1_Witness ==
  \E a \in Attempts :
    /\ MiddlewareRan(a) /\ AllEmpty(att[a].sel)
    /\ att[a].query.organization = Str("")
    /\ att[a].query.domain = Undef
    /\ Len(att[a].sent) = 1

\* C2: when a resolved selector is non-empty, next() is called once, no error is
\* sent and res.locals.grant.dynamic.custom_params holds the three resolved
\* values, a selector given in the query being injected as given; every request
\* ends in exactly one of the two outcomes.
C2_SelectorProceeds ==
  \A a \in Attempts :
    MiddlewareRan(a) =>
      /\ ~AllEmpty(att[a].sel) =>
           /\ att[a].nextCalls = 1
           /\ att[a].sent = <<>>
           /\ att[a].locals.grant.dynamic.custom_params =
                [t |-> "object", organization |-> att[a].sel.organization,
                 connection |-> att[a].sel.connection, domain |-> att[a].sel.domain]
           /\ \A f \in Selectors :
                att[a].query[f] # Undef =>
                  att[a].locals.grant.dynamic.custom_params[f] = att[a].query[f]
      /\ \/ Len(att[a].sent) = 1 /\ att[a].nextCalls = 0
         \/ Len(att[a].sent) = 0 /\ att[a].nextCalls = 1

C2_Witness ==
  \E a \in Attempts :
    /\ MiddlewareRan(a)
    /\ att[a].query = [organization |-> Undef, connection |-> Str("org_1"), domain |-> Str("")]
    /\ env[DefaultOrganizationVar] = Undef
    /\ att[a].nextCalls = 1
    /\ att[a].locals.grant.dynamic.custom_params.connection = Str("org_1")

\* C3: each selector resolves on its own to the query's value, or when the query
\* misses it to the default named AUTH_PROVIDER_WORKOS_DEFAULT_<SELECTOR>; with
\* no selector in the query and only the default domain set, the flow proceeds
\* with that domain injected.
C3_UniformDefaults ==
  \A a \in Attempts :
    MiddlewareRan(a) =>
      /\ att[a].sel.organization =
           Default(att[a].query.organization, env[DefaultOrganizationVar])
      /\ att[a].sel.connection =
           Default(att[a].query.connection, env[DefaultConnectionVar])
      /\ att[a].sel.domain =
           Default(att[a].query.domain, env[UniformDefaultDomainVar])
      /\ (/\ att[a].query = NoQuery
          /\ env[DefaultOrganizationVar] = Undef
          /\ env[DefaultConnectionVar] = Undef
          /\ env[UniformDefaultDomainVar] # Undef) =>
           /\ att[a].nextCalls = 1
           /\ att[a].locals.grant.dynamic.custom_params.domain =
                env[UniformDefaultDomainVar]

\* the email records of a settled github attempt whose request returned an array
GithubRecords(a) == att[a].reply.data.v

GithubAnswered(a) ==
  /\ Settled(a) /\ att[a].provider = "github"
  /\ att[a].reply.kind = "http" /\ att[a].reply.status = 200
  /\ att[a].reply.data.t = "array" /\ Len(att[a].reply.data.v) > 0

IsPrimary(r) == Get(r, "primary") = Bool(TRUE)

\* C4: for a non-empty list of email records github's profile carries the email
\* of the record flagged primary, whatever its position, and with no record
\* flagged primary the email of the first record.
C4_EmailTieBreak ==
  \A a \in Attempts :
    GithubAnswered(a) =>
      LET recs == GithubRecords(a)
          primaries == {i \in 1..Len(recs) : IsPrimary(recs[i])}
      IN /\ att[a].result.kind = "profile"
         /\ primaries # {} =>
              \E i \in primaries : att[a].result.profile.email = Get(recs[i], "email")
         /\ Cardinality(primaries) = 1 =>
              \A i \in primaries : att[a].result.profile.email = Get(recs[i], "email")
         /\ primaries = {} => att[a].result.profile.email = Get(recs[1], "email")

C4_Witness ==
  \E a \in Attempts :
    /\ GithubAnswered(a)
    /\ Len(GithubRecords(a)) = 2
    /\ ~IsPrimary(GithubRecords(a)[1]) /\ IsPrimary(GithubRecords(a)[2])
    /\ att[a].result.kind = "profile"
    /\ att[a].result.profile.email = Str("b@x")

\* the body of a secondary reply has the shape the provider documents: an array
\* (github) or an object holding one (bitbucket: values, linkedin: elements) that
\* is not empty and whose records all carry a string email
HasEmail(p, r) ==
  IF p = "linkedin"
  THEN OptGet(Get(r, "handle"), "emailAddress").t = "string"
  ELSE Get(r, "email").t = "string"

ExpectedShape(p, data) ==
  LET list == CASE p = "github" -> data
                [] p = "bitbucket" -> OptGet(data, "values")
                [] p = "linkedin" -> OptGet(data, "elements")
  IN /\ list.t = "array"
     /\ Len(list.v) > 0
     /\ \A i \in 1..Len(list.v) : HasEmail(p, list.v[i])

SecondaryFailed(a) ==
  \/ att[a].reply.kind = "network"
  \/ ~(att[a].reply.status >= 200 /\ att[a].reply.status < 300)
  \/ ~ExpectedShape(att[a].provider, att[a].reply.data)

\* C5: when the secondary request of bitbucket, github or linkedin fails (network
\* error, non-2xx status, body without the expected shape), normalization throws
\* and returns no profile.
C5_SecondaryFailureThrows ==
  \A a \in Attempts :
    (Settled(a) /\ IsAsync(att[a].provider) /\ SecondaryFailed(a)) =>
      att[a].result.kind = "throw"

\* C6: a profile is returned only with an id that is a non-empty string taken
\* from the provider's identifier field; a payload without that field makes the
\* profile function throw.
C6_IdentifierRequired ==
  \A a \in Attempts :
    Returned(a) =>
      LET id == att[a].result.profile.id
          field == IdentifierOf(att[a].provider, att[a].response)
      IN /\ field # Undef
         /\ id.t = "string" /\ id.v # ""
         /\ id.v = JsString(field)

\* C7: a descriptor that a lookup hands out has a non-empty client_id and a
\* non-empty client_secret.
C7_SelectableHasCredentials ==
  selected.kind = "descriptor" =>
    /\ Truthy(selected.grant.client_id)
    /\ Truthy(selected.grant.client_secret)

\* what the profile function of attempt a returns for its own inputs
OwnResult(a) ==
  IF IsAsync(att[a].provider)
  THEN AsyncProfile(att[a].provider, att[a].response, att[a].reply)
  ELSE SyncProfile(att[a].provider, att[a].response)

\* C8: no step changes the registry or the environment, a step of one attempt
\* leaves the other attempts as they are, every settled attempt holds the result
\* of its own response (and reply), and two attempts with the same inputs hold
\* the same result.
C8_NoSharedState ==
  /\ [][/\ PROVIDERS_CONFIG' = PROVIDERS_CONFIG
        /\ env' = env
        /\ \A a, b \in Attempts :
             (a # b /\ att'[a] # att[a]) => att'[b] = att[b]]_vars
  /\ [](\A a \in Attempts : Settled(a) => att[a].result = OwnResult(a))
  /\ [](\A a, b \in Attempts :
          (/\ Settled(a) /\ Settled(b)
           /\ att[a].provider = att[b].provider
           /\ att[a].response = att[b].response
           /\ att[a].reply = att[b].reply) => att[a].result = att[b].result)

C8_Witness ==
  \E a, b \in Attempts :
    /\ a # b
    /\ att[a].provider = "workos" /\ Returned(a) /\ att[a].locals.grant # Undef
    /\ att[b].provider = "github" /\ Settled(b) /\ att[b].result.kind = "throw"

\* the profile function of attempt a has been called
Called(a) == att[a].pc \in {"await", "done"} /\ att[a].response # Undef

\* C9 as stated: a secondary request is issued only when the primary payload
\* carries no email, and never more than one.
C9_OnlyWhenEmailAbsent ==
  \A a \in Attempts :
    /\ Len(att[a].requests) <= 1
    /\ Len(att[a].requests) > 0 =>
         PrimaryEmailOf(att[a].provider, att[a].response) = Undef

\* C9 amended: bitbucket, github and linkedin issue exactly one request, whatever
\* the primary payload holds, to the provider's email endpoint with the attempt's
\* access token as bearer; no request follows a failed one; the other providers
\* issue none.
C9_OneRequestUnconditionally ==
  \A a \in Attempts :
    /\ Len(att[a].requests) <= 1
    /\ Called(a) =>
         IF att[a].provider \in {"bitbucket", "github", "linkedin"}
         THEN att[a].requests =
                <<[url |-> CASE att[a].provider = "bitbucket" ->
                                  "https://api.bitbucket.org/2.0/user/emails"
                             [] att[a].provider = "github" ->
                                  "https://api.github.com/user/emails"
                             [] att[a].provider = "linkedin" ->
                                  "https://api.linkedin.com/v2/emailAddress?q=members&projection=(elements*(handle~))",
                   Authorization |-> "Bearer " \o att[a].response.access_token.v]>>
         ELSE att[a].requests = <<>>

C9_Witness ==
  \E a \in Attempts :
    /\ Settled(a) /\ att[a].provider = "github"
    /\ PrimaryEmailOf("github", att[a].response) = Str("p@x")
    /\ att[a].result = Throw("AxiosError")
    /\ Len(att[a].requests) = 1

\* the record github's tie-break picks: the first flagged primary, else the first
TieBreak(recs) ==
  LET primaries == {i \in 1..Len(recs) : Truthy(Get(recs[i], "primary"))}
  IN IF primaries = {} THEN recs[1]
     ELSE recs[CHOOSE i \in primaries : \A j \in primaries : i <= j]

\* C10: a returned profile has emailVerified true only when the provider's flag
\* is set on the source of the profile's email: the tie-break's record (github),
\* the first record (bitbucket), the primary payload (discord, google); the other
\* providers never return emailVerified true.
C10_VerifiedOnlyIfAsserted ==
  \A a \in Attempts :
    (Returned(a) /\ Truthy(att[a].result.profile.emailVerified)) =>
      LET p == att[a].provider
          prof == att[a].result.profile
          payload == att[a].response.profile
      IN CASE p = "github" ->
                LET r == TieBreak(att[a].reply.data.v)
                IN Truthy(Get(r, "verified")) /\ prof.email = Get(r, "email")
           [] p = "bitbucket" ->
                LET r == att[a].reply.data.values.v[1]
                IN Truthy(Get(r, "is_confirmed")) /\ prof.email = Get(r, "email")
           [] p = "discord" ->
                Truthy(Get(payload, "verified")) /\ prof.email = Get(payload, "email")
           [] p = "google" ->
                Truthy(Get(payload, "email_verified"))
                  /\ prof.email = Get(payload, "email")
           [] OTHER -> FALSE

C10_Witness ==
  \E a \in Attempts :
    /\ Returned(a) /\ att[a].provider = "github"
    /\ Len(att[a].reply.data.v) = 2
    /\ att[a].result.profile.emailVerified = Bool(TRUE)
    /\ att[a].result.profile.email = Str("a@x")

====
